---- MODULE Spec2Model ----
(***************************************************************************)
(* Model of bikeshed/highlight.py: the token-stream normaliser             *)
(* (coloredTextFromRawTokens), the tree flattener (flattenHighlighting),   *)
(* the colour merger (mergeHighlighting, highlightEl) and the line wrapper *)
(* (addLineWrappers).                                                      *)
(*                                                                         *)
(* Representation.  A Python string is a sequence of one-character         *)
(* strings.  A DOM node is a record                                        *)
(*   [kind, tag, class, text, children, line, lineEnd]                     *)
(* with kind "text" (payload in text) or kind "el".  An attribute value is *)
(* None (absent) or, for class, the list of its space-separated tokens:    *)
(* "kt" is <<"kt">>, "c p" is <<"c","p">>, "" is <<"">>.  The children of  *)
(* an element are kept the way lxml keeps them: text is stored in          *)
(* .text/.tail, so two text nodes are never adjacent and no text node is   *)
(* empty.                                                                  *)
(***************************************************************************)
EXTENDS Integers, Sequences, FiniteSets, TLC

VARIABLES
    pc,           \* position of the driver
    el,           \* the fragment being processed
    el0,          \* history: the fragment as it was before the call
    coloredText,  \* the run deque (consumed in place by the merge)
    coloredText0, \* history: the run deque as it was passed in
    rawTokens,    \* the raw token dump handed to coloredTextFromRawTokens
    tokens,       \* history: the lexer's tokens the dump was written from
    nested,       \* the parsed markup handed to flattenHighlighting
    lang,         \* the language highlightEl was called with
    diagnostics,  \* number of die() calls so far
    numbers, start, highlights   \* arguments of addLineWrappers

vars == <<pc, el, el0, coloredText, coloredText0, rawTokens, tokens, nested,
          lang, diagnostics, numbers, start, highlights>>

\* Python's None, for an absent attribute, an absent colour, an absent result.
None == <<>>

NL == "\n"
TAB == "\t"
BSL == "\\"
QUOTE == "'"

(***************************************************************************)
(* Bounds of the model.                                                    *)
(***************************************************************************)
MaxTokens == 2      \* tokens in a raw dump
MaxTokLen == 2      \* characters in one token
MaxLeafLen == 2     \* characters in one text leaf of a fragment to merge
MaxKids == 2        \* children of the fragment to merge
MaxRuns == 2        \* runs in the deque handed to the merge
MaxFlatKids == 2    \* children of a span of the markup to flatten
MaxLineText == 3    \* characters in one text child of a fragment to wrap
MaxLineKids == 2    \* children of the fragment to wrap
MaxHighlight == 3   \* largest line number in highlights
MaxStart == 2       \* largest start

(***************************************************************************)
(* Python string primitives.                                               *)
(***************************************************************************)
RECURSIVE Concat(_)
Concat(ss) == IF ss = <<>> THEN <<>> ELSE Head(ss) \o Concat(Tail(ss))

Contains(s, c) == \E i \in 1..Len(s) : s[i] = c

FirstIndex(s, c) == CHOOSE i \in 1..Len(s) : s[i] = c /\ \A j \in 1..(i-1) : s[j] # c

\* str.partition(sep): <<before, sep, after>>, or <<s, "", "">> when sep is absent.
partition(s, c) ==
    IF Contains(s, c)
    THEN LET i == FirstIndex(s, c)
         IN <<SubSeq(s, 1, i-1), <<c>>, SubSeq(s, i+1, Len(s))>>
    ELSE <<s, <<>>, <<>>>>

\* str.split(sep): always at least one piece, empty pieces kept.
RECURSIVE split(_, _)
split(s, c) ==
    IF Contains(s, c)
    THEN LET p == partition(s, c) IN <<p[1]>> \o split(p[3], c)
    ELSE <<s>>

\* str.count(sep)
RECURSIVE count(_, _)
count(s, c) ==
    IF s = <<>> THEN 0
    ELSE (IF Head(s) = c THEN 1 ELSE 0) + count(Tail(s), c)

\* s[n:]
DropFirst(s, n) == SubSeq(s, n+1, Len(s))

(***************************************************************************)
(* The raw token dump.  pygments' RawTokenFormatter writes one line        *)
(* "<token type>\t<repr(text)>\n" per token; the type name is kept as one  *)
(* symbol of the dump (a type name holds no tab, quote or line break).     *)
(***************************************************************************)
\* a token type of the lookup table and one that is not in it
TokenNames == {"Token.Keyword", "Token.Text"}
\* a letter, the line break, the backslash
TokChars == {"n", NL, BSL}

\* repr() of a unicode string without quotes in it: u'...' with \n and \\ escaped.
RECURSIVE Escape(_)
Escape(s) ==
    IF s = <<>> THEN <<>>
    ELSE (IF Head(s) = NL THEN <<BSL, "n">>
          ELSE IF Head(s) = BSL THEN <<BSL, BSL>>
          ELSE <<Head(s)>>) \o Escape(Tail(s))

Repr(s) == <<"u", QUOTE>> \o Escape(s) \o <<QUOTE>>

RECURSIVE FormatRawTokens(_)
FormatRawTokens(toks) ==
    IF toks = <<>> THEN <<>>
    ELSE <<Head(toks).name, TAB>> \o Repr(Head(toks).text) \o <<NL>>
         \o FormatRawTokens(Tail(toks))

\* eval() of such a literal: drop u' and ', undo the escapes.
RECURSIVE Unescape(_)
Unescape(s) ==
    IF s = <<>> THEN <<>>
    ELSE IF Head(s) = BSL /\ Len(s) >= 2
         THEN (IF s[2] = "n" THEN <<NL>> ELSE <<s[2]>>) \o Unescape(DropFirst(s, 2))
         ELSE <<Head(s)>> \o Unescape(Tail(s))

eval(r) == Unescape(SubSeq(r, 3, Len(r) - 1))

(***************************************************************************)
(* coloredTextFromRawTokens                                                *)
(***************************************************************************)
ColoredText(text, color) == [text |-> text, color |-> color]

colorFromNameTable ==
    {
      <<"Token.Comment", "c">>, <<"Token.Keyword", "k">>, <<"Token.Literal", "l">>,
      <<"Token.Name", "n">>, <<"Token.Operator", "o">>, <<"Token.Punctuation", "p">>,
      <<"Token.Comment.Multiline", "cm">>, <<"Token.Comment.Preproc", "cp">>, <<"Token.Comment.Single", "c1">>,
      <<"Token.Comment.Special", "cs">>, <<"Token.Keyword.Constant", "kc">>, <<"Token.Keyword.Declaration", "kd">>,
      <<"Token.Keyword.Namespace", "kn">>, <<"Token.Keyword.Pseudo", "kp">>, <<"Token.Keyword.Reserved", "kr">>,
      <<"Token.Keyword.Type", "kt">>, <<"Token.Literal.Date", "ld">>, <<"Token.Literal.Number", "m">>,
      <<"Token.Literal.String", "s">>, <<"Token.Name.Attribute", "na">>, <<"Token.Name.Class", "nc">>,
      <<"Token.Name.Constant", "no">>, <<"Token.Name.Decorator", "nd">>, <<"Token.Name.Entity", "ni">>,
      <<"Token.Name.Exception", "ne">>, <<"Token.Name.Function", "nf">>, <<"Token.Name.Label", "nl">>,
      <<"Token.Name.Namespace", "nn">>, <<"Token.Name.Property", "py">>, <<"Token.Name.Tag", "nt">>,
      <<"Token.Name.Variable", "nv">>, <<"Token.Operator.Word", "ow">>, <<"Token.Literal.Number.Bin", "mb">>,
      <<"Token.Literal.Number.Float", "mf">>, <<"Token.Literal.Number.Hex", "mh">>, <<"Token.Literal.Number.Integer", "mi">>,
      <<"Token.Literal.Number.Oct", "mo">>, <<"Token.Literal.String.Backtick", "sb">>, <<"Token.Literal.String.Char", "sc">>,
      <<"Token.Literal.String.Doc", "sd">>, <<"Token.Literal.String.Double", "s2">>, <<"Token.Literal.String.Escape", "se">>,
      <<"Token.Literal.String.Heredoc", "sh">>, <<"Token.Literal.String.Interpol", "si">>, <<"Token.Literal.String.Other", "sx">>,
      <<"Token.Literal.String.Regex", "sr">>, <<"Token.Literal.String.Single", "s1">>, <<"Token.Literal.String.Symbol", "ss">>,
      <<"Token.Name.Variable.Class", "vc">>, <<"Token.Name.Variable.Global", "vg">>, <<"Token.Name.Variable.Instance", "vi">>,
      <<"Token.Literal.Number.Integer.Long", "il">>
    }

\* colorFromName.get(tokenName, None)
colorFromName(tokenName) ==
    IF \E p \in colorFromNameTable : p[1] = tokenName
    THEN <<(CHOOSE p \in colorFromNameTable : p[1] = tokenName)[2]>>
    ELSE None

\* the loop "for bit in textBits[1:]" of addCtToList
RECURSIVE addBits(_, _, _)
addBits(list, bits, color) ==
    IF bits = <<>> THEN list
    ELSE addBits(list \o <<ColoredText(<<NL>>, None), ColoredText(Head(bits), color)>>,
                 Tail(bits), color)

\* variant of addCtToList that appends the run without splitting it at line breaks
addCtToListUnsplit(list, ct) == Append(list, ct)

addCtToList(list, ct) ==
    IF Contains(ct.text, NL)
    THEN LET textBits == split(ct.text, NL)
         IN addBits(Append(list, ColoredText(textBits[1], ct.color)), Tail(textBits), ct.color)
    ELSE Append(list, ct)

\* One iteration of "for line in text.split('\n')"; st = [textList, currentCT],
\* currentCT is a one-element sequence, or None.
tokenLineStep(st, line) ==
    IF line = <<>> THEN st
    ELSE LET p == partition(line, TAB)
             tokenName == p[1]
             color == colorFromName(IF tokenName = <<>> THEN "" ELSE tokenName[1])
             text == eval(p[3])
         IN IF text = <<>> THEN st
            ELSE IF st.currentCT = None
                 THEN [st EXCEPT !.currentCT = <<ColoredText(text, color)>>]
            ELSE IF st.currentCT[1].color = color
                 THEN [st EXCEPT !.currentCT = <<ColoredText(st.currentCT[1].text \o text, color)>>]
            ELSE [textList |-> addCtToList(st.textList, st.currentCT[1]),
                  currentCT |-> <<ColoredText(text, color)>>]

RECURSIVE tokenLines(_, _)
tokenLines(st, lines) ==
    IF lines = <<>> THEN st
    ELSE tokenLines(tokenLineStep(st, Head(lines)), Tail(lines))

coloredTextFromRawTokens(text) ==
    LET st == tokenLines([textList |-> <<>>, currentCT |-> None], split(text, NL))
    IN IF st.currentCT # None
       THEN addCtToList(st.textList, st.currentCT[1])
       ELSE st.textList

(***************************************************************************)
(* DOM helpers (bikeshed/htmlhelpers.py, over lxml).                       *)
(***************************************************************************)
Text(s) == [kind |-> "text", tag |-> "", class |-> None, text |-> s,
            children |-> <<>>, line |-> None, lineEnd |-> None]

El(tag, class, children) ==
    [kind |-> "el", tag |-> tag, class |-> class, text |-> <<>>,
     children |-> children, line |-> None, lineEnd |-> None]

isElement(node) == node.kind = "el"

\* childNodes(el): text and element children in document order.
childNodes(node) == node.children

\* what childNodes(el, clear=True) leaves of el
clearContents(node) == [node EXCEPT !.children = <<>>]

\* len(el) of lxml: the number of child ELEMENTS; text is not counted.
RECURSIVE lenEl(_)
lenEl(kids) ==
    IF kids = <<>> THEN 0
    ELSE (IF isElement(Head(kids)) THEN 1 ELSE 0) + lenEl(Tail(kids))

hasChildElements(node) == lenEl(node.children) > 0

RECURSIVE textContent(_)
RECURSIVE textContentOfList(_)
textContent(node) ==
    IF isElement(node) THEN textContentOfList(node.children) ELSE node.text

textContentOfList(kids) ==
    IF kids = <<>> THEN <<>>
    ELSE textContent(Head(kids)) \o textContentOfList(Tail(kids))

\* appendChild(parent, child): text goes to the tail of the last element child
\* or to parent.text, so it joins a text node that is already last.
appendChild(parent, child) ==
    LET kids == parent.children
        n == Len(kids)
    IN IF isElement(child)
       THEN [parent EXCEPT !.children = Append(kids, child)]
       ELSE IF child.text = <<>> THEN parent
       ELSE IF n > 0 /\ ~isElement(kids[n])
            THEN [parent EXCEPT !.children[n] = Text(kids[n].text \o child.text)]
       ELSE [parent EXCEPT !.children = Append(kids, child)]

\* appendChild(parent, *children)
RECURSIVE appendChildren(_, _)
appendChildren(parent, nodes) ==
    IF nodes = <<>> THEN parent
    ELSE appendChildren(appendChild(parent, Head(nodes)), Tail(nodes))

\* " cls " in " class ": cls occurs as a run of whole tokens of the attribute.
hasClass(node, cls) ==
    \E i \in 1..(Len(node.class) - Len(cls) + 1) :
        SubSeq(node.class, i, i + Len(cls) - 1) = cls

\* addClass(el, cls): set when absent, else append " cls" unless already there.
addClass(node, cls) ==
    IF node.class = None THEN [node EXCEPT !.class = cls]
    ELSE IF hasClass(node, cls) THEN node
    ELSE [node EXCEPT !.class = node.class \o cls]

\* isEmpty(el): the element has no content at all.
isEmpty(node) == node.children = <<>>

\* A well-formed child list: no empty text node, no two adjacent text nodes.
Normalised(kids) ==
    /\ \A i \in 1..Len(kids) : ~isElement(kids[i]) => kids[i].text # <<>>
    /\ \A i \in 1..(Len(kids) - 1) : isElement(kids[i]) \/ isElement(kids[i+1])

(***************************************************************************)
(* mergeHighlighting                                                       *)
(***************************************************************************)
\* E.span({"class": color}, text)
createEl(color, text) ==
    appendChild(El("span", color, <<>>), Text(text))

\* variant of colorizeTextStep that emits the whole run when the run is longer
\* than the rest of the leaf
colorizeTextStepWholeRun(st) ==
    LET nextColor == Head(st.coloredText)
        rest == Tail(st.coloredText)
        text == st.text
        node == IF nextColor.color = None THEN Text(nextColor.text)
                ELSE createEl(nextColor.color, nextColor.text)
    IN IF Len(nextColor.text) <= Len(text)
       THEN [nodes |-> Append(st.nodes, node),
             text |-> DropFirst(text, Len(nextColor.text)),
             coloredText |-> rest]
       ELSE [nodes |-> Append(st.nodes, node),
             text |-> <<>>,
             coloredText |-> <<ColoredText(DropFirst(nextColor.text, Len(text)),
                                           nextColor.color)>> \o rest]

\* variant of colorizeTextStep whose put-back remainder loses its colour
colorizeTextStepPlainRest(st) ==
    LET nextColor == Head(st.coloredText)
        rest == Tail(st.coloredText)
        text == st.text
    IN IF Len(nextColor.text) <= Len(text)
       THEN [nodes |-> Append(st.nodes,
                              IF nextColor.color = None THEN Text(nextColor.text)
                              ELSE createEl(nextColor.color, nextColor.text)),
             text |-> DropFirst(text, Len(nextColor.text)),
             coloredText |-> rest]
       ELSE [nodes |-> Append(st.nodes,
                              IF nextColor.color = None THEN Text(text)
                              ELSE createEl(nextColor.color, text)),
             text |-> <<>>,
             coloredText |-> <<ColoredText(DropFirst(nextColor.text, Len(text)), None)>>
                             \o rest]

\* Body of the loop of colorizeText; st = [nodes, text, coloredText].
colorizeTextStep(st) ==
    LET nextColor == Head(st.coloredText)
        rest == Tail(st.coloredText)
        text == st.text
    IN IF Len(nextColor.text) <= Len(text)
       THEN [nodes |-> Append(st.nodes,
                              IF nextColor.color = None THEN Text(nextColor.text)
                              ELSE createEl(nextColor.color, nextColor.text)),
             text |-> DropFirst(text, Len(nextColor.text)),
             coloredText |-> rest]
       ELSE [nodes |-> Append(st.nodes,
                              IF nextColor.color = None THEN Text(text)
                              ELSE createEl(nextColor.color, text)),
             text |-> <<>>,
             coloredText |-> <<ColoredText(DropFirst(nextColor.text, Len(text)),
                                           nextColor.color)>> \o rest]

\* while text and coloredText: ...
RECURSIVE colorizeTextLoop(_)
colorizeTextLoop(st) ==
    IF st.text # <<>> /\ st.coloredText # <<>>
    THEN colorizeTextLoop(colorizeTextStep(st))
    ELSE st

\* colorizeText(text, coloredText): the emitted nodes and the queue left.
colorizeText(text, q) ==
    colorizeTextLoop([nodes |-> <<>>, text |-> text, coloredText |-> q])

\* colorizeEl(el, coloredText): r = [el, coloredText]
RECURSIVE colorizeEl(_, _)
RECURSIVE colorizeKids(_, _)
\* variant of colorizeKids that colours an element child as if it were its text
colorizeKidsFlat(r, kids) ==
    IF kids = <<>> THEN r
    ELSE LET sub == colorizeText(textContent(Head(kids)), r.coloredText)
         IN colorizeKids([el |-> appendChildren(r.el, sub.nodes),
                          coloredText |-> sub.coloredText], Tail(kids))

colorizeKids(r, kids) ==
    IF kids = <<>> THEN r
    ELSE LET node == Head(kids)
         IN IF isElement(node)
            THEN LET sub == colorizeEl(node, r.coloredText)
                 IN colorizeKids([el |-> appendChild(r.el, sub.el),
                                  coloredText |-> sub.coloredText], Tail(kids))
            ELSE LET sub == colorizeText(node.text, r.coloredText)
                 IN colorizeKids([el |-> appendChildren(r.el, sub.nodes),
                                  coloredText |-> sub.coloredText], Tail(kids))

colorizeEl(node, q) ==
    colorizeKids([el |-> clearContents(node), coloredText |-> q], childNodes(node))

\* mergeHighlighting(el, coloredText): the element and the deque as the call
\* leaves them.  A None coloredText is falsy at line 195 like the empty deque,
\* and is never popped.
mergeHighlighting(node, q) == colorizeEl(node, q)

(***************************************************************************)
(* highlightEl, highlightWithPygments                                      *)
(***************************************************************************)
\* the languages for which lexerFromLang finds a lexer
KnownLangs == {"css"}
Langs == {"css", "brainfck"}

lexerFromLang(l) == IF l \in KnownLangs THEN <<l>> ELSE None

(***************************************************************************)
(* flattenHighlighting, highlightWithWebIDL                                *)
(***************************************************************************)
\* what parseHTML returns: a list of nodes, not an element
NodeList(kids) ==
    [kind |-> "list", tag |-> "", class |-> None, text |-> <<>>,
     children |-> kids, line |-> None, lineEnd |-> None]

\* el.get("class", '') if isElement(el) else ""
overclassOf(node) ==
    IF isElement(node) /\ node.class # None THEN node.class ELSE <<"">>

\* the loop "for subnode in childNodes(flattened)"
RECURSIVE appendFlattened(_, _, _)
appendFlattened(container, subnodes, overclass) ==
    IF subnodes = <<>> THEN container
    ELSE LET subnode == Head(subnodes)
         IN appendFlattened(
                IF isElement(subnode)
                THEN appendChild(container, addClass(subnode, overclass))
                ELSE appendChild(container,
                                 appendChild(El("span", overclass, <<>>), subnode)),
                Tail(subnodes), overclass)

RECURSIVE flattenHighlighting(_)
RECURSIVE flattenKids(_, _, _)
flattenKids(container, kids, node) ==
    IF kids = <<>> THEN container
    ELSE LET kid == Head(kids)
         IN flattenKids(
                IF ~isElement(kid) THEN appendChild(container, kid)
                ELSE IF ~hasChildElements(kid) THEN appendChild(container, kid)
                ELSE appendFlattened(container,
                                     childNodes(flattenHighlighting(kid)),
                                     overclassOf(node)),
                Tail(kids), node)

flattenHighlighting(node) ==
    flattenKids(El("div", None, <<>>), childNodes(node), node)

\* the loop of highlightWithWebIDL over the flattened nodes
RECURSIVE coloredTextOfNodes(_)
coloredTextOfNodes(nodes) ==
    IF nodes = <<>> THEN <<>>
    ELSE LET n == Head(nodes)
         IN <<IF isElement(n) THEN ColoredText(textContent(n), n.class)
              ELSE ColoredText(n.text, None)>>
            \o coloredTextOfNodes(Tail(nodes))

\* highlightWithWebIDL(text, el), from the parsed markup of the IDL parser on
highlightWithWebIDL(markup) ==
    coloredTextOfNodes(childNodes(flattenHighlighting(markup)))

(***************************************************************************)
(* addLineWrappers                                                         *)
(***************************************************************************)
Digit(d) == <<"0", "1", "2", "3", "4", "5", "6", "7", "8", "9">>[d + 1]

\* unicode(n) of an integer
RECURSIVE unicodeNat(_)
unicodeNat(n) ==
    IF n < 10 THEN <<Digit(n)>> ELSE unicodeNat(n \div 10) \o <<Digit(n % 10)>>

unicode(n) == IF n < 0 THEN <<"-">> \o unicodeNat(-n) ELSE unicodeNat(n)

newLineWrapper == El("div", <<"line">>, <<>>)
newLineNo == El("span", <<"line-no">>, <<>>)

\* the "while True" loop over one text child; st = [el, lineWrapper]
RECURSIVE wrapText(_, _)
wrapText(st, node) ==
    IF Contains(node, NL)
    THEN LET p == partition(node, NL)
             closed == appendChild(st.lineWrapper, Text(p[1]))
         IN wrapText([el |-> appendChild(appendChild(st.el, newLineNo), closed),
                      lineWrapper |-> newLineWrapper],
                     p[3])
    ELSE [st EXCEPT !.lineWrapper = appendChild(st.lineWrapper, Text(node))]

\* the loop "for node in childNodes(el, clear=True)"
RECURSIVE wrapKids(_, _)
wrapKids(st, kids) ==
    IF kids = <<>> THEN st
    ELSE wrapKids(IF isElement(Head(kids))
                  THEN [st EXCEPT !.lineWrapper = appendChild(st.lineWrapper, Head(kids))]
                  ELSE wrapText(st, Head(kids).text),
                  Tail(kids))

\* lines 376-378: the wrapper left open after the last child
closeLastLine(st) ==
    IF lenEl(st.lineWrapper.children) > 0
    THEN appendChild(appendChild(st.el, newLineNo), st.lineWrapper)
    ELSE st.el

RECURSIVE countInternalNewlines(_)
RECURSIVE countNewlinesIn(_)
countNewlinesIn(kids) ==
    IF kids = <<>> THEN 0
    ELSE (IF isElement(Head(kids)) THEN countInternalNewlines(Head(kids))
          ELSE count(Head(kids).text, NL))
         + countNewlinesIn(Tail(kids))

countInternalNewlines(node) == countNewlinesIn(childNodes(node))

\* variant of numberLine that looks up only the first line number of a wrapper
\* in highlights, not its internal lines
numberLineFirstOnly(lineNo, node, lineNumber, nums, hl) ==
    LET node1 == IF isEmpty(node) THEN [node EXCEPT !.children = <<Text(<<" ">>)>>]
                 ELSE node
        lineNo1 == IF nums \/ lineNumber \in hl
                   THEN [lineNo EXCEPT !.line = unicode(lineNumber)] ELSE lineNo
        node2 == IF lineNumber \in hl THEN addClass(node1, <<"highlight-line">>) ELSE node1
        lineNo2 == IF lineNumber \in hl THEN addClass(lineNo1, <<"highlight-line">>)
                   ELSE lineNo1
        internalNewlines == countInternalNewlines(node2)
        lineNo4 == IF internalNewlines > 0 /\ nums
                   THEN [lineNo2 EXCEPT !.lineEnd = unicode(lineNumber + internalNewlines)]
                   ELSE lineNo2
    IN [lineNo |-> lineNo4, node |-> node2,
        lineNumber |-> lineNumber + internalNewlines + 1]

\* variant of numberLine that does not advance the line number by the line
\* breaks inside the wrapper
numberLineNoAdvance(lineNo, node, lineNumber, nums, hl) ==
    LET node1 == IF isEmpty(node) THEN [node EXCEPT !.children = <<Text(<<" ">>)>>]
                 ELSE node
        lineNo1 == IF nums \/ lineNumber \in hl
                   THEN [lineNo EXCEPT !.line = unicode(lineNumber)] ELSE lineNo
        node2 == IF lineNumber \in hl THEN addClass(node1, <<"highlight-line">>) ELSE node1
        lineNo2 == IF lineNumber \in hl THEN addClass(lineNo1, <<"highlight-line">>)
                   ELSE lineNo1
        internalNewlines == countInternalNewlines(node2)
        hit == \E i \in 1..internalNewlines : (lineNumber + i) \in hl
        node3 == IF hit THEN addClass(node2, <<"highlight-line">>) ELSE node2
        lineNo3 == IF hit
                   THEN [addClass(lineNo2, <<"highlight-line">>)
                            EXCEPT !.line = unicode(lineNumber)]
                   ELSE lineNo2
        lineNo4 == IF internalNewlines > 0 /\ nums
                   THEN [lineNo3 EXCEPT !.lineEnd = unicode(lineNumber)]
                   ELSE lineNo3
    IN [lineNo |-> lineNo4, node |-> node3, lineNumber |-> lineNumber + 1]

\* Body of the numbering loop for one (lineNo, node) pair at lineNumber:
\* the pair as it is left, and the line number for the next pair.
numberLine(lineNo, node, lineNumber, nums, hl) ==
    LET node1 == IF isEmpty(node) THEN [node EXCEPT !.children = <<Text(<<" ">>)>>]
                 ELSE node
        lineNo1 == IF nums \/ lineNumber \in hl
                   THEN [lineNo EXCEPT !.line = unicode(lineNumber)] ELSE lineNo
        node2 == IF lineNumber \in hl THEN addClass(node1, <<"highlight-line">>) ELSE node1
        lineNo2 == IF lineNumber \in hl THEN addClass(lineNo1, <<"highlight-line">>)
                   ELSE lineNo1
        internalNewlines == countInternalNewlines(node2)
        hit == \E i \in 1..internalNewlines : (lineNumber + i) \in hl
        node3 == IF hit THEN addClass(node2, <<"highlight-line">>) ELSE node2
        lineNo3 == IF hit
                   THEN [addClass(lineNo2, <<"highlight-line">>)
                            EXCEPT !.line = unicode(lineNumber)]
                   ELSE lineNo2
        lineNo4 == IF internalNewlines > 0 /\ nums
                   THEN [lineNo3 EXCEPT !.lineEnd = unicode(lineNumber + internalNewlines)]
                   ELSE lineNo3
    IN [lineNo |-> lineNo4, node |-> node3,
        lineNumber |-> lineNumber + internalNewlines + 1]

\* the loop "for lineNo, node in grouper(childNodes(el), 2)", from pair i on
RECURSIVE numberLines(_, _, _, _, _)
numberLines(kids, i, lineNumber, nums, hl) ==
    IF i + 1 > Len(kids) THEN kids
    ELSE LET r == numberLine(kids[i], kids[i+1], lineNumber, nums, hl)
         IN numberLines([kids EXCEPT ![i] = r.lineNo, ![i+1] = r.node],
                        i + 2, r.lineNumber, nums, hl)

addLineWrappers(node, nums, first, hl) ==
    LET wrapped == closeLastLine(wrapKids([el |-> clearContents(node),
                                           lineWrapper |-> newLineWrapper],
                                          childNodes(node)))
        numbered == [wrapped EXCEPT
                        !.children = numberLines(wrapped.children, 1, first, nums, hl)]
    IN addClass(numbered, <<"line-numbered">>)

(***************************************************************************)
(* Inputs.                                                                 *)
(***************************************************************************)
SeqsUpTo(S, n) == UNION {[1..k -> S] : k \in 0..n}

NoFragment == El("pre", None, <<>>)

TokTexts == SeqsUpTo(TokChars, MaxTokLen)
TokenSeqs == SeqsUpTo([name : TokenNames, text : TokTexts], MaxTokens)

\* Fragments for the merge.  The merge looks at the length of a text, never
\* at its characters, so the fragments are all shapes of text leaves, inline
\* elements and nested elements, their characters numbered through the alphabet.
Letters == <<"a", "b", "c", "d", "e", "f", "g", "h", "i", "j", "k", "l", "m", "n">>
MergeColors == {None, <<"k">>}
ShapeLeaves == {Text([i \in 1..n |-> "a"]) : n \in 1..MaxLeafLen}
ShapeInner == {El("em", None, ks) : ks \in {<<>>} \cup {<<l>> : l \in ShapeLeaves}}
                  \cup {El("a", None, <<El("em", None, <<Text(<<"a">>)>>)>>)}
KidSeqs(pool, n) == {ks \in SeqsUpTo(pool, n) : Normalised(ks)}
Shapes == {El("pre", None, ks) : ks \in KidSeqs(ShapeLeaves \cup ShapeInner, MaxKids)}

RECURSIVE Relabel(_, _)
RECURSIVE RelabelKids(_, _)
Relabel(node, off) ==
    IF isElement(node) THEN [node EXCEPT !.children = RelabelKids(node.children, off)]
    ELSE [node EXCEPT !.text = [i \in 1..Len(node.text) |-> Letters[off + i]]]

RelabelKids(kids, off) ==
    IF kids = <<>> THEN <<>>
    ELSE <<Relabel(Head(kids), off)>>
         \o RelabelKids(Tail(kids), off + Len(textContent(Head(kids))))

Fragments == {Relabel(f, 0) : f \in Shapes}

\* every sequence of k runs that spells text
RunSeqsOfLen(text, k) ==
    IF k = 0 THEN (IF text = <<>> THEN {<<>>} ELSE {})
    ELSE {[i \in 1..k |->
              ColoredText(SubSeq(text, (IF i = 1 THEN 0 ELSE cut[i-1]) + 1, cut[i]), col[i])] :
            cut \in {c \in [1..k -> 0..Len(text)] :
                        /\ c[k] = Len(text)
                        /\ \A i \in 1..(k-1) : c[i] <= c[i+1]},
            col \in [1..k -> MergeColors]}

RunSeqsSpelling(text) == UNION {RunSeqsOfLen(text, k) : k \in 0..MaxRuns}

\* the text itself; and texts that do not match it: cut short, too long,
\* of the same length with another character
NearTexts(text) ==
    {text, text \o <<"z">>}
        \cup (IF text = <<>> THEN {}
              ELSE {SubSeq(text, 1, Len(text) - 1), <<"z">> \o Tail(text)})

RunSeqsFor(fragment) ==
    UNION {RunSeqsSpelling(t) : t \in NearTexts(textContent(fragment))}

\* Markup for the flattener: spans with or without a class, three levels
\* deep, alone or after a text.
FlatClasses == {None, <<"p">>, <<"c">>}
FlatText == {Text(<<"x">>)}
Spans1 == {El("span", c, ks) : c \in FlatClasses, ks \in KidSeqs(FlatText, MaxFlatKids)}
Spans2 == {El("span", c, ks) :
              c \in FlatClasses,
              ks \in {k \in KidSeqs(FlatText \cup Spans1, MaxFlatKids) : lenEl(k) > 0}}
Spans3 == {El("span", c, <<e>>) : c \in FlatClasses, e \in Spans2}
Markups == {NodeList(<<e>>) : e \in Spans1 \cup Spans2 \cup Spans3}
               \cup {NodeList(<<Text(<<"x">>), e>>) : e \in Spans1 \cup Spans2 \cup Spans3}

\* Fragments for the line wrapper: text with line breaks, a span on one line,
\* a span over two lines, an element with two nested line breaks.
LineChars == {"a", NL}
LineTexts == {Text(t) : t \in SeqsUpTo(LineChars, MaxLineText) \ {<<>>}}
LineEls == {El("span", <<"k">>, <<Text(<<"a">>)>>),
            El("span", <<"k">>, <<Text(<<"a", NL, "a">>)>>),
            El("em", None, <<El("span", <<"k">>, <<Text(<<NL>>)>>), Text(<<NL>>)>>)}
\* the small values of start, and one that carries into a second digit
StartValues == (1..MaxStart) \cup {9}
LineFragments == {El("pre", None, ks) : ks \in KidSeqs(LineTexts \cup LineEls, MaxLineKids)}

(***************************************************************************)
(* Specification of the token-stream normaliser.                           *)
(***************************************************************************)
InitTokens ==
    /\ pc = "tokens"
    /\ tokens \in TokenSeqs
    /\ rawTokens = FormatRawTokens(tokens)
    /\ coloredText = <<>>
    /\ coloredText0 = <<>>
    /\ el = NoFragment /\ el0 = NoFragment /\ nested = <<>>
    /\ lang = "" /\ diagnostics = 0
    /\ numbers = FALSE /\ start = 1 /\ highlights = {}

ColoredTextFromRawTokens ==
    /\ pc = "tokens"
    /\ coloredText' = coloredTextFromRawTokens(rawTokens)
    /\ pc' = "runs"
    /\ UNCHANGED <<el, el0, coloredText0, rawTokens, tokens, nested, lang,
                   diagnostics, numbers, start, highlights>>

NextTokens == ColoredTextFromRawTokens

SpecTokens == InitTokens /\ [][NextTokens]_vars

(***************************************************************************)
(* Specification of the merge.                                             *)
(***************************************************************************)
InitMerge ==
    /\ pc = "start"
    /\ el \in Fragments
    /\ el0 = el
    /\ coloredText \in RunSeqsFor(el)
    /\ coloredText0 = coloredText
    /\ rawTokens = <<>> /\ tokens = <<>> /\ nested = <<>>
    /\ lang = "" /\ diagnostics = 0
    /\ numbers = FALSE /\ start = 1 /\ highlights = {}

\* mergeHighlighting(el, coloredText), called on its own
MergeHighlighting ==
    /\ pc = "start"
    /\ LET r == mergeHighlighting(el, coloredText)
       IN /\ el' = r.el
          /\ coloredText' = r.coloredText
    /\ pc' = "merged"
    /\ UNCHANGED <<el0, coloredText0, rawTokens, tokens, nested, lang,
                   diagnostics, numbers, start, highlights>>

\* highlightEl(el, lang) for a language other than idl/webidl.  The lexer's
\* output for a known language is the run sequence of the state; for an
\* unknown one highlightWithPygments reports and returns None.
HighlightEl ==
    /\ pc = "start"
    /\ \E l \in Langs :
         LET lexer == lexerFromLang(l)
             ct == IF lexer = None THEN <<>> ELSE coloredText
             r == mergeHighlighting(el, ct)
         IN /\ lang' = l
            /\ diagnostics' = IF lexer = None THEN diagnostics + 1 ELSE diagnostics
            /\ el' = addClass(r.el, <<"highlight">>)
            /\ coloredText' = r.coloredText
    /\ pc' = "highlighted"
    /\ UNCHANGED <<el0, coloredText0, rawTokens, tokens, nested, numbers, start, highlights>>

NextMerge == MergeHighlighting \/ HighlightEl

SpecMerge == InitMerge /\ [][NextMerge]_vars

(***************************************************************************)
(* Specification of the flattener.                                         *)
(***************************************************************************)
InitFlatten ==
    /\ pc = "markup"
    /\ nested \in Markups
    /\ coloredText = <<>> /\ coloredText0 = <<>>
    /\ el = NoFragment /\ el0 = NoFragment
    /\ rawTokens = <<>> /\ tokens = <<>>
    /\ lang = "idl" /\ diagnostics = 0
    /\ numbers = FALSE /\ start = 1 /\ highlights = {}

HighlightWithWebIDL ==
    /\ pc = "markup"
    /\ coloredText' = highlightWithWebIDL(nested)
    /\ pc' = "flattened"
    /\ UNCHANGED <<el, el0, coloredText0, rawTokens, tokens, nested, lang,
                   diagnostics, numbers, start, highlights>>

NextFlatten == HighlightWithWebIDL

SpecFlatten == InitFlatten /\ [][NextFlatten]_vars

(***************************************************************************)
(* Specification of the line wrapper.                                      *)
(***************************************************************************)
InitLines ==
    /\ pc = "lines"
    /\ el \in LineFragments
    /\ el0 = el
    /\ numbers \in BOOLEAN
    /\ start \in StartValues
    /\ highlights \in SUBSET (1..MaxHighlight)
    /\ coloredText = <<>> /\ coloredText0 = <<>>
    /\ rawTokens = <<>> /\ tokens = <<>> /\ nested = <<>>
    /\ lang = "" /\ diagnostics = 0

AddLineWrappers ==
    /\ pc = "lines"
    /\ el' = addLineWrappers(el, numbers, start, highlights)
    /\ pc' = "wrapped"
    /\ UNCHANGED <<el0, coloredText, coloredText0, rawTokens, tokens, nested, lang,
                   diagnostics, numbers, start, highlights>>

NextLines == AddLineWrappers

SpecLines == InitLines /\ [][NextLines]_vars

(***************************************************************************)
(* Properties of the merge.                                                *)
(***************************************************************************)
RECURSIVE RunsText(_)
RunsText(q) == IF q = <<>> THEN <<>> ELSE Head(q).text \o RunsText(Tail(q))

Repeat(x, n) == [i \in 1..n |-> x]

\* the colour of every character of a run sequence
RECURSIVE RunColors(_)
RunColors(q) ==
    IF q = <<>> THEN <<>>
    ELSE Repeat(Head(q).color, Len(Head(q).text)) \o RunColors(Tail(q))

\* the colour of every character of a tree: the class of the span the merge
\* put the character in, None for a character left in a plain text node
RECURSIVE CharColors(_, _)
CharColors(kids, color) ==
    IF kids = <<>> THEN <<>>
    ELSE LET node == Head(kids)
         IN (IF isElement(node)
             THEN CharColors(node.children, IF node.tag = "span" THEN node.class ELSE None)
             ELSE Repeat(color, Len(node.text)))
            \o CharColors(Tail(kids), color)

\* the precondition of the merge: the runs spell the text of the fragment
Matching == RunsText(coloredText0) = textContent(el0)

\* C1: when the run texts spell the fragment's text, the text content of the
\* fragment after mergeHighlighting is the same string as before the call.
C1_TextPreserved ==
    (pc = "merged" /\ Matching) => textContent(el) = textContent(el0)

\* a matching merge of two runs over a nested fragment that changed the tree
C1_Witness ==
    /\ pc = "merged" /\ Matching
    /\ Len(coloredText0) = 2 /\ Len(textContent(el0)) >= 3
    /\ \E i \in 1..Len(el0.children) : isElement(el0.children[i])
    /\ el # el0

\* C2: when the run texts do not spell the fragment's text, mergeHighlighting
\* does not return normally with a fragment whose text was changed.
C2_MismatchFailsLoudly ==
    ~(pc = "merged" /\ ~Matching /\ textContent(el) # textContent(el0))

\* C3: highlightEl with an unrecognised language emits one diagnostic and
\* leaves the children and the text of the element as they were.
C3_UnknownLangLeavesElement ==
    (pc = "highlighted" /\ lexerFromLang(lang) = None)
        => /\ diagnostics = 1
           /\ el.children = el0.children
           /\ textContent(el) = textContent(el0)

\* C10: after a matching merge every character carries the colour of the run
\* that covers it: a span of that category, or plain text for no category.
C10_PerCharColour ==
    (pc = "merged" /\ Matching)
        => CharColors(el.children, None) = RunColors(coloredText0)

\* one run "ab" of category k over the leaves "a" and "b" gives one k-span per leaf
C10_Witness ==
    /\ pc = "merged"
    /\ el0 = El("pre", None, <<Text(<<"a">>), El("em", None, <<Text(<<"b">>)>>)>>)
    /\ coloredText0 = <<ColoredText(<<"a", "b">>, <<"k">>)>>
    /\ el = El("pre", None,
               <<El("span", <<"k">>, <<Text(<<"a">>)>>),
                 El("em", None, <<El("span", <<"k">>, <<Text(<<"b">>)>>)>>)>>)

(***************************************************************************)
(* Properties of the token-stream normaliser.                              *)
(***************************************************************************)
RECURSIVE TokensText(_)
TokensText(toks) == IF toks = <<>> THEN <<>> ELSE Head(toks).text \o TokensText(Tail(toks))

\* the category the lookup table gives the token types of the model
ExpectedColor(name) ==
    IF name = "Token.Keyword" THEN <<"k">> ELSE None

RECURSIVE TokenColors(_)
TokenColors(toks) ==
    IF toks = <<>> THEN <<>>
    ELSE Repeat(ExpectedColor(Head(toks).name), Len(Head(toks).text))
         \o TokenColors(Tail(toks))

\* C6: no run returned by coloredTextFromRawTokens has empty text.
C6_NoEmptyRun ==
    pc = "runs" => \A i \in 1..Len(coloredText) : coloredText[i].text # <<>>

\* C7: in the output of coloredTextFromRawTokens a run that contains a line
\* break is exactly the uncategorised run "\n", every other character keeps
\* the category of its token, and the run texts spell the decoded token texts.
C7_NewlineIsolation ==
    pc = "runs" =>
        /\ \A i \in 1..Len(coloredText) :
              Contains(coloredText[i].text, NL)
                  => coloredText[i] = ColoredText(<<NL>>, None)
        /\ RunsText(coloredText) = TokensText(tokens)
        /\ \A i \in 1..Len(TokensText(tokens)) :
              TokensText(tokens)[i] # NL
                  => RunColors(coloredText)[i] = TokenColors(tokens)[i]

\* a keyword in two tokens, a line break in the first, a backslash in the second
C7_Witness ==
    /\ pc = "runs"
    /\ tokens = <<[name |-> "Token.Keyword", text |-> <<"n", NL>>],
                  [name |-> "Token.Keyword", text |-> <<BSL, "n">>]>>
    /\ coloredText = <<ColoredText(<<"n">>, <<"k">>), ColoredText(<<NL>>, None),
                       ColoredText(<<BSL, "n">>, <<"k">>)>>

(***************************************************************************)
(* Properties of the flattener.                                            *)
(***************************************************************************)
ToSet(seq) == {seq[i] : i \in 1..Len(seq)}

\* for every character of the markup, the class tokens of the elements around
\* it that carry a class and have element children
RECURSIVE InheritedClasses(_, _)
InheritedClasses(kids, acc) ==
    IF kids = <<>> THEN <<>>
    ELSE LET node == Head(kids)
         IN (IF isElement(node)
             THEN InheritedClasses(node.children,
                                   IF node.class # None /\ hasChildElements(node)
                                   THEN acc \cup ToSet(node.class) ELSE acc)
             ELSE Repeat(acc, Len(node.text)))
            \o InheritedClasses(Tail(kids), acc)

\* C8: every node emitted for the subtree of an element P that carries a
\* category and has element children carries P's category, at every depth.
C8_CategoryInherited ==
    pc = "flattened" =>
        /\ Len(RunColors(coloredText)) = Len(InheritedClasses(nested.children, {}))
        /\ \A i \in 1..Len(RunColors(coloredText)) :
              InheritedClasses(nested.children, {})[i] \subseteq ToSet(RunColors(coloredText)[i])

(***************************************************************************)
(* Properties of the line wrapper.                                         *)
(***************************************************************************)
NumPairs == Len(el.children) \div 2
Marker(j) == el.children[2 * j - 1]
Wrapper(j) == el.children[2 * j]

\* all line breaks of the fragment are in its top-level text children
NoNestedBreaks ==
    \A i \in 1..Len(el0.children) :
        isElement(el0.children[i]) => count(textContent(el0.children[i]), NL) = 0

\* C4: a fragment with k line breaks, all in top-level text, gets k+1 pairs.
C4_LineCount ==
    (pc = "wrapped" /\ NoNestedBreaks)
        => /\ Len(el.children) = 2 * NumPairs
           /\ NumPairs = count(textContent(el0), NL) + 1

\* the text of a wrapper, the one-space placeholder of a blank line read as empty
LineText(node) ==
    IF node.children = <<Text(<<" ">>)>> THEN <<>> ELSE textContent(node)

RECURSIVE JoinLines(_)
JoinLines(j) ==
    IF j > NumPairs THEN <<>>
    ELSE LineText(Wrapper(j)) \o (IF j < NumPairs THEN <<NL>> ELSE <<>>) \o JoinLines(j + 1)

\* C5: the wrappers' texts joined by line breaks spell the fragment's text.
C5_NoTextLost ==
    pc = "wrapped" => JoinLines(1) = textContent(el0)

\* line breaks inside wrapper j, and the number of its first line
InternalLines(j) == count(textContent(Wrapper(j)), NL)

RECURSIVE FirstLine(_)
FirstLine(j) == IF j = 1 THEN start ELSE FirstLine(j - 1) + InternalLines(j - 1) + 1

Flagged(node) == hasClass(node, <<"highlight-line">>)

\* C9: a wrapper is flagged highlight-line exactly when one of the line numbers
\* it covers is in highlights, and its marker is flagged exactly when it is.
C9_HighlightFlags ==
    pc = "wrapped" =>
        \A j \in 1..NumPairs :
            /\ Flagged(Wrapper(j)) <=>
                  (\E n \in FirstLine(j)..(FirstLine(j) + InternalLines(j)) : n \in highlights)
            /\ Flagged(Marker(j)) <=> Flagged(Wrapper(j))

\* a wrapper flagged for one of its internal lines only, next to an unflagged one
C9_Witness ==
    /\ pc = "wrapped"
    /\ NumPairs >= 2
    /\ \E j \in 1..NumPairs :
          /\ Flagged(Wrapper(j)) /\ Flagged(Marker(j))
          /\ FirstLine(j) \notin highlights
          /\ InternalLines(j) > 0
    /\ \E j \in 1..NumPairs : ~Flagged(Wrapper(j)) /\ ~Flagged(Marker(j))

(***************************************************************************)
(* The markup of the fragment across the merge.                            *)
(***************************************************************************)
\* the nodes the merge emits are spans; the fragments hold pre, em and a
Emitted(node) == isElement(node) /\ node.tag = "span"

\* the elements of a tree without its text and without the emitted spans:
\* tag, annotations, parent and order of every other element
RECURSIVE Skeleton(_)
RECURSIVE SkeletonKids(_)
Skeleton(node) == [node EXCEPT !.children = SkeletonKids(node.children)]

SkeletonKids(kids) ==
    IF kids = <<>> THEN <<>>
    ELSE (IF isElement(Head(kids)) /\ ~Emitted(Head(kids))
          THEN <<Skeleton(Head(kids))>> ELSE <<>>)
         \o SkeletonKids(Tail(kids))

\* every emitted span of the tree holds text only
RECURSIVE SpansHoldText(_)
SpansHoldText(node) ==
    \A i \in 1..Len(node.children) :
        LET kid == node.children[i]
        IN isElement(kid) =>
              IF Emitted(kid) THEN lenEl(kid.children) = 0 ELSE SpansHoldText(kid)

\* the tree with every emitted span put back as the text it holds
RECURSIVE Unwrap(_)
RECURSIVE UnwrapKids(_, _)
Unwrap(node) == UnwrapKids(clearContents(node), node.children)

UnwrapKids(parent, kids) ==
    IF kids = <<>> THEN parent
    ELSE UnwrapKids(appendChild(parent,
                                IF ~isElement(Head(kids)) THEN Head(kids)
                                ELSE IF Emitted(Head(kids)) THEN Text(textContent(Head(kids)))
                                ELSE Unwrap(Head(kids))),
                    Tail(kids))

\* C11: after mergeHighlighting every element of the original fragment is
\* there with its tag, annotations, parent and order; no emitted span holds
\* or crosses an element; and, the runs matching, each text leaf is replaced
\* in its place by nodes that spell it.
C11_MarkupKept ==
    pc = "merged" =>
        /\ Skeleton(el) = Skeleton(el0)
        /\ SpansHoldText(el)
        /\ Matching => Unwrap(el) = el0

\* one coloured run over a text and the text of a nested element behind it
C11_Witness ==
    /\ pc = "merged"
    /\ el0 = El("pre", None,
                <<Text(<<"a">>), El("a", None, <<El("em", None, <<Text(<<"b">>)>>)>>)>>)
    /\ coloredText0 = <<ColoredText(<<"a", "b">>, <<"k">>)>>
    /\ el = El("pre", None,
               <<El("span", <<"k">>, <<Text(<<"a">>)>>),
                 El("a", None,
                    <<El("em", None, <<El("span", <<"k">>, <<Text(<<"b">>)>>)>>)>>)>>)

(***************************************************************************)
(* Line numbers.                                                           *)
(***************************************************************************)
\* the integer a decimal attribute value reads as
DigitValue(c) ==
    CASE c = "0" -> 0 [] c = "1" -> 1 [] c = "2" -> 2 [] c = "3" -> 3 [] c = "4" -> 4
      [] c = "5" -> 5 [] c = "6" -> 6 [] c = "7" -> 7 [] c = "8" -> 8 [] c = "9" -> 9

RECURSIVE ParseInt(_)
ParseInt(digits) ==
    IF Len(digits) = 1 THEN DigitValue(digits[1])
    ELSE 10 * ParseInt(SubSeq(digits, 1, Len(digits) - 1)) + DigitValue(digits[Len(digits)])

\* where the content of wrapper j begins in the text of the original fragment:
\* behind the wrappers before it and the line break that closed each of them
RECURSIVE ContentOffset(_)
ContentOffset(j) ==
    IF j = 1 THEN 0 ELSE ContentOffset(j - 1) + Len(LineText(Wrapper(j - 1))) + 1

\* start plus the line breaks of the original text, top-level and nested,
\* that precede the content of wrapper j
LineNumberOf(j) == start + count(SubSeq(textContent(el0), 1, ContentOffset(j)), NL)

\* C12: the number of a wrapper is start plus the count of all line breaks
\* before its content; the marker carries it when numbers is set or it is in
\* highlights; with numbers set a wrapper with m >= 1 internal line breaks
\* carries the end-line number + m, and one with none carries no end-line.
C12_LineNumbers ==
    pc = "wrapped" =>
        \A j \in 1..NumPairs :
            /\ ContentOffset(j) <= Len(textContent(el0))
            /\ (numbers \/ LineNumberOf(j) \in highlights) => Marker(j).line # None
            /\ Marker(j).line # None => ParseInt(Marker(j).line) = LineNumberOf(j)
            /\ j > 1 => LineNumberOf(j) = LineNumberOf(j - 1) + InternalLines(j - 1) + 1
            /\ (numbers /\ InternalLines(j) >= 1)
                  => /\ Marker(j).lineEnd # None
                     /\ ParseInt(Marker(j).lineEnd) = LineNumberOf(j) + InternalLines(j)
            /\ InternalLines(j) = 0 => Marker(j).lineEnd = None

\* a two-line span numbered 9 to 10, then a blank line numbered 11
C12_Witness ==
    /\ pc = "wrapped"
    /\ numbers /\ start = 9
    /\ el0.children = <<El("span", <<"k">>, <<Text(<<"a", NL, "a">>)>>), Text(<<NL, NL>>)>>
    /\ NumPairs = 2
    /\ Marker(1).line = <<"9">> /\ Marker(1).lineEnd = <<"1", "0">>
    /\ Marker(2).line = <<"1", "1">> /\ Marker(2).lineEnd = None

====
